---- MODULE Spec2Model ----
(***************************************************************************)
(* Model of homework.py: the fitness-tracker calculation core (Training    *)
(* and its subclasses Running, SportsWalking, Swimming), InfoMessage,      *)
(* read_package and the __main__ loop over the rows of packages.csv.       *)
(*                                                                         *)
(* Python floats are modelled as exact rationals n/d (d > 0, lowest        *)
(* terms); the sample inputs are chosen so that every intermediate fits    *)
(* the model checker's integers.  A Python exception raised while an       *)
(* expression is evaluated is modelled as the value of that expression:    *)
(* every arithmetic operator passes an exception operand on unchanged,     *)
(* which is how the exception leaves the enclosing method.                 *)
(***************************************************************************)
EXTENDS Integers, Sequences, FiniteSets

VARIABLES
    klass,          \* class attributes: class name -> attribute name -> value
    packages,       \* __main__: the rows csv.reader yields, each a row of fields
    row_idx,        \* __main__: number of rows the for loop has taken
    printed,        \* __main__: the lines printed so far
    uncaught,       \* __main__: the exception that ended the program, or None
    workout_type,   \* read_package: its first argument
    data,           \* read_package: its second argument
    training,       \* the object read_package returned (None before / on error)
    raised,         \* the exception read_package raised, or None
    info,           \* what the last show_training_info call returned or raised
    calls,          \* number of show_training_info calls made on training
    distance,       \* what the last get_distance call returned
    speed           \* what the last get_mean_speed call returned or raised

vars == <<klass, packages, row_idx, printed, uncaught, workout_type, data,
          training, raised, info, calls, distance, speed>>

(***************************************************************************)
(* Values.  Every value is a record with a tag, so that any two values can *)
(* be compared.                                                            *)
(***************************************************************************)
None == [tag |-> "None"]

Abs(x) == IF x < 0 THEN -x ELSE x

RECURSIVE GCD(_, _)
GCD(a, b) == IF b = 0 THEN Abs(a) ELSE GCD(b, a % b)

\* The float n/d, in lowest terms with a positive denominator.
Float(n, d) ==
    LET g == GCD(Abs(n), Abs(d))
        s == IF d < 0 THEN -1 ELSE 1
    IN  [tag |-> "float", n |-> s * (n \div g), d |-> s * (d \div g)]

\* An int used where a float is expected.
ToFloat(i) == [tag |-> "float", n |-> i, d |-> 1]

IsExc(x) == x.tag = "exc"

Exception(type, msg) == [tag |-> "exc", type |-> type, msg |-> msg]

ZeroDivisionError == Exception("ZeroDivisionError", [text |-> "float division by zero"])

\* x + y
FAdd(x, y) ==
    IF IsExc(x) THEN x
    ELSE IF IsExc(y) THEN y
    ELSE LET g == GCD(x.d, y.d)
             l == (x.d \div g) * y.d
         IN  Float(x.n * (l \div x.d) + y.n * (l \div y.d), l)

\* x * y
FMul(x, y) ==
    IF IsExc(x) THEN x
    ELSE IF IsExc(y) THEN y
    ELSE LET g1 == GCD(Abs(x.n), y.d)
             g2 == GCD(Abs(y.n), x.d)
         IN  Float((x.n \div g1) * (y.n \div g2), (x.d \div g2) * (y.d \div g1))

\* x / y: float division raises ZeroDivisionError on a zero divisor.
FDiv(x, y) ==
    IF IsExc(x) THEN x
    ELSE IF IsExc(y) THEN y
    ELSE IF y.n = 0 THEN ZeroDivisionError
    ELSE FMul(x, Float(y.d, y.n))

\* x ** 2
FPow2(x) == FMul(x, x)

(***************************************************************************)
(* Class attributes (lines 55-57, 97-98, 114-117, 146-148).                *)
(***************************************************************************)
M_IN_KM == 1000
MIN_IN_H == 60
CALORIES_MEAN_SPEED_MULTIPLIER == 18
CM_IN_M == 100
WEIGHT_MULTIPLIER == 2

Training_LEN_STEP == Float(65, 100)
CALORIES_MEAN_SPEED_SHIFT == Float(179, 100)
CALORIES_WEIGHT_MULTIPLIER == Float(35, 1000)
CALORIES_SPEED_HEIGHT_MULTIPLIER == Float(29, 1000)
KMH_IN_MSEC == Float(278, 1000)
MEAN_SPEED_SHIFT == Float(11, 10)
Swimming_LEN_STEP == Float(138, 100)

\* The class bodies: the attributes each class statement binds.
ClassBodies ==
    [Training |-> [LEN_STEP |-> Training_LEN_STEP,
                   M_IN_KM |-> ToFloat(M_IN_KM),
                   MIN_IN_H |-> ToFloat(MIN_IN_H)],
     Running |-> [CALORIES_MEAN_SPEED_MULTIPLIER |-> ToFloat(CALORIES_MEAN_SPEED_MULTIPLIER),
                  CALORIES_MEAN_SPEED_SHIFT |-> CALORIES_MEAN_SPEED_SHIFT],
     SportsWalking |-> [CALORIES_WEIGHT_MULTIPLIER |-> CALORIES_WEIGHT_MULTIPLIER,
                        CALORIES_SPEED_HEIGHT_MULTIPLIER |-> CALORIES_SPEED_HEIGHT_MULTIPLIER,
                        KMH_IN_MSEC |-> KMH_IN_MSEC,
                        CM_IN_M |-> ToFloat(CM_IN_M)],
     Swimming |-> [MEAN_SPEED_SHIFT |-> MEAN_SPEED_SHIFT,
                   WEIGHT_MULTIPLIER |-> ToFloat(WEIGHT_MULTIPLIER),
                   LEN_STEP |-> Swimming_LEN_STEP]]

\* Mutant of Attr: the base class is searched before type(self).
AttrBaseFirst(self, name) ==
    IF name \in DOMAIN klass["Training"]
    THEN klass["Training"][name]
    ELSE klass[self.tag][name]

\* self.NAME: no method assigns an instance attribute of that name, so the
\* lookup finds the attribute in type(self), else in its base class Training.

Attr(self, name) ==
    IF name \in DOMAIN klass[self.tag]
    THEN klass[self.tag][name]
    ELSE klass["Training"][name]

(***************************************************************************)
(* Training and its subclasses (lines 43-173).  An instance is a record    *)
(* whose tag is the class name and whose other fields are the instance     *)
(* attributes the __init__ chain assigns.                                  *)
(***************************************************************************)
\* The positional parameters (after self) of each class's __init__:
\* Running inherits Training.__init__.
InitParams ==
    [Running |-> <<"action", "duration", "weight">>,
     SportsWalking |-> <<"action", "duration", "weight", "height">>,
     Swimming |-> <<"action", "duration", "weight", "length_pool", "count_pool">>]

\* The function whose signature the call is bound against.
InitName ==
    [Running |-> "Training.__init__",
     SportsWalking |-> "SportsWalking.__init__",
     Swimming |-> "Swimming.__init__"]

TypeError(msg) == Exception("TypeError", msg)

\* Mutant of New: missing arguments default to 0, surplus ones are dropped.
NewLenient(cls, args) ==
    LET params == InitParams[cls]
    IN  [k \in {"tag"} \cup {params[i] : i \in 1..Len(params)} |->
            IF k = "tag" THEN cls
            ELSE LET i == CHOOSE j \in 1..Len(params) : params[j] = k
                 IN  IF i <= Len(args) THEN args[i] ELSE ToFloat(0)]

\* cls(*args): binds args to the parameters of cls.__init__, which stores
\* each as the attribute of the same name; a count that does not match is a
\* TypeError raised before any __init__ body runs.  No value is inspected.
New(cls, args) ==
    LET params == InitParams[cls]
    IN  IF Len(args) < Len(params)
        THEN TypeError([text |-> "missing required positional arguments",
                        func |-> InitName[cls],
                        names |-> SubSeq(params, Len(args) + 1, Len(params))])
        ELSE IF Len(args) > Len(params)
        THEN TypeError([text |-> "takes positional arguments but more were given",
                        func |-> InitName[cls],
                        takes |-> Len(params) + 1,
                        given |-> Len(args) + 1])
        ELSE [k \in {"tag"} \cup {params[i] : i \in 1..Len(params)} |->
                IF k = "tag" THEN cls
                ELSE args[CHOOSE j \in 1..Len(params) : params[j] = k]]

IsTraining(x) == x.tag \in DOMAIN InitParams

\* Training.get_distance, inherited unchanged by all three subclasses.
get_distance(self) ==
    FDiv(FMul(self.action, Attr(self, "LEN_STEP")), Attr(self, "M_IN_KM"))

\* Mutant of Training_get_mean_speed: the operands of the division swapped.
Training_get_mean_speed_inverted(self) == FDiv(self.duration, get_distance(self))

Training_get_mean_speed(self) == FDiv(get_distance(self), self.duration)

Swimming_get_mean_speed(self) ==
    FDiv(FDiv(FMul(self.length_pool, self.count_pool), Attr(self, "M_IN_KM")),
         self.duration)

\* Mutant of get_mean_speed: Swimming's override is missing.
get_mean_speed_not_overridden(self) == Training_get_mean_speed(self)

\* self.get_mean_speed(): Swimming overrides Training's.

get_mean_speed(self) ==
    IF self.tag = "Swimming"
    THEN Swimming_get_mean_speed(self)
    ELSE Training_get_mean_speed(self)

\* Mutant of Running_get_spent_calories: the shift subtracted, not added.
Running_get_spent_calories_minus(self) ==
    FMul(FMul(FDiv(FMul(FAdd(FMul(Attr(self, "CALORIES_MEAN_SPEED_MULTIPLIER"),
                                  get_mean_speed(self)),
                             FMul(ToFloat(-1), Attr(self, "CALORIES_MEAN_SPEED_SHIFT"))),
                        self.weight),
                   Attr(self, "M_IN_KM")),
              self.duration),
         Attr(self, "MIN_IN_H"))

Running_get_spent_calories(self) ==
    FMul(FMul(FDiv(FMul(FAdd(FMul(Attr(self, "CALORIES_MEAN_SPEED_MULTIPLIER"),
                                  get_mean_speed(self)),
                             Attr(self, "CALORIES_MEAN_SPEED_SHIFT")),
                        self.weight),
                   Attr(self, "M_IN_KM")),
              self.duration),
         Attr(self, "MIN_IN_H"))

SportsWalking_get_spent_calories(self) ==
    FMul(FMul(FAdd(FMul(Attr(self, "CALORIES_WEIGHT_MULTIPLIER"), self.weight),
                   FMul(FMul(FDiv(FPow2(FMul(get_mean_speed(self),
                                             Attr(self, "KMH_IN_MSEC"))),
                                  FDiv(self.height, Attr(self, "CM_IN_M"))),
                             Attr(self, "CALORIES_SPEED_HEIGHT_MULTIPLIER")),
                        self.weight)),
              self.duration),
         Attr(self, "MIN_IN_H"))

Swimming_get_spent_calories(self) ==
    FMul(FMul(FMul(FAdd(get_mean_speed(self), Attr(self, "MEAN_SPEED_SHIFT")),
                   Attr(self, "WEIGHT_MULTIPLIER")),
              self.weight),
         self.duration)

\* self.get_spent_calories(): each subclass overrides Training's, which
\* raises NotImplementedError.
get_spent_calories(self) ==
    CASE self.tag = "Running" -> Running_get_spent_calories(self)
      [] self.tag = "SportsWalking" -> SportsWalking_get_spent_calories(self)
      [] self.tag = "Swimming" -> Swimming_get_spent_calories(self)
      [] OTHER -> Exception("NotImplementedError", [text |-> ""])

\* InfoMessage(...): the dataclass constructor.  Its arguments are evaluated
\* left to right and the first exception leaves the caller.
InfoMessage(training_type, duration, distance_, speed_, calories) ==
    IF IsExc(distance_) THEN distance_
    ELSE IF IsExc(speed_) THEN speed_
    ELSE IF IsExc(calories) THEN calories
    ELSE [tag |-> "InfoMessage",
          training_type |-> training_type,
          duration |-> duration,
          distance |-> distance_,
          speed |-> speed_,
          calories |-> calories]

IsInfo(x) == x.tag = "InfoMessage"

\* Mutant of show_training_info: the step counter is reset once reported.
show_training_info_resetting(self) ==
    [ret |-> InfoMessage(self.tag, self.duration, get_distance(self),
                         get_mean_speed(self), get_spent_calories(self)),
     self |-> [self EXCEPT !.action = ToFloat(0)]]

\* Training.show_training_info: ret is what the call returns (or the
\* exception that leaves it), self is the instance after the call.  The
\* method and the three it calls contain no assignment.

show_training_info(self) ==
    [ret |-> InfoMessage(self.tag, self.duration, get_distance(self),
                         get_mean_speed(self), get_spent_calories(self)),
     self |-> self]

(***************************************************************************)
(* InfoMessage.get_message (lines 33-40).                                  *)
(***************************************************************************)
\* f'{x:.3f}': x rounded to the nearest thousandth (a tie to the even one),
\* given as the number of thousandths.
Format3f(x) ==
    LET t == FMul(x, ToFloat(1000))
        q == t.n \div t.d
        r == t.n - q * t.d
    IN  IF 2 * r < t.d THEN q
        ELSE IF 2 * r > t.d THEN q + 1
        ELSE IF q % 2 = 0 THEN q ELSE q + 1

get_message(self) ==
    [tag |-> "str",
     training_type |-> self.training_type,
     duration |-> Format3f(self.duration),
     distance |-> Format3f(self.distance),
     speed |-> Format3f(self.speed),
     calories |-> Format3f(self.calories)]

(***************************************************************************)
(* WorkoutTypes and read_package (lines 176-186).                          *)
(***************************************************************************)
WorkoutTypes ==
    [RUN |-> "Running", WLK |-> "SportsWalking", SWM |-> "Swimming"]

KeyError(key) == Exception("KeyError", [text |-> "repr", key |-> key])

\* Mutant of WorkoutTypes_getitem: the lookup ignores the case of the name.
WorkoutTypes_getitem_anycase(name) ==
    LET upper == IF name = "run" THEN "RUN" ELSE name
    IN  IF upper \in DOMAIN WorkoutTypes
        THEN [tag |-> "member", name |-> upper, value |-> WorkoutTypes[upper]]
        ELSE KeyError(name)

\* WorkoutTypes[name]: the member of that exact name, else KeyError(name).

WorkoutTypes_getitem(name) ==
    IF name \in DOMAIN WorkoutTypes
    THEN [tag |-> "member", name |-> name, value |-> WorkoutTypes[name]]
    ELSE KeyError(name)

\* IncorrectInputDataError(f'{err}'): the message is str(err).
IncorrectInputDataError(err) == Exception("IncorrectInputDataError", err.msg)

\* The exception classes the except clause of read_package names.
read_package_catches == {"KeyError", "TypeError"}

read_package(workout_type_, data_) ==
    LET member == WorkoutTypes_getitem(workout_type_)
        result == IF IsExc(member) THEN member ELSE New(member.value, data_)
    IN  IF IsExc(result) /\ result.type \in read_package_catches
        THEN IncorrectInputDataError(result)
        ELSE result

\* main (lines 189-190): the line it prints, or the exception that leaves it.
main(training_) ==
    LET message == show_training_info(training_).ret
    IN  IF IsExc(message) THEN message ELSE get_message(message)

(***************************************************************************)
(* The __main__ block (lines 193-206).  A csv field is a sequence of       *)
(* one-character strings.                                                  *)
(***************************************************************************)
ValueError(msg) == Exception("ValueError", msg)

DigitChars == <<"0", "1", "2", "3", "4", "5", "6", "7", "8", "9">>

IsDigit(c) == \E i \in 1..10 : DigitChars[i] = c

DigitOf(c) == (CHOOSE i \in 1..10 : DigitChars[i] = c) - 1

RECURSIVE Int10(_)
Int10(q) ==
    IF q = <<>> THEN 0
    ELSE Int10(SubSeq(q, 1, Len(q) - 1)) * 10 + DigitOf(q[Len(q)])

RECURSIVE Pow10(_)
Pow10(k) == IF k = 0 THEN 1 ELSE 10 * Pow10(k - 1)

\* float(number) for a str: an optional sign, then digits with at most one
\* decimal point and at least one digit; anything else is a ValueError.
\* (Python also accepts surrounding blanks, an exponent, "_" between digits,
\* inf and nan; no field of the sample rows contains those characters.)
float_of_str(number) ==
    LET signed == Len(number) > 0 /\ number[1] \in {"-", "+"}
        body == IF signed THEN Tail(number) ELSE number
        dots == {i \in 1..Len(body) : body[i] = "."}
        dot == IF dots = {} THEN Len(body) + 1 ELSE CHOOSE i \in dots : TRUE
        whole == SubSeq(body, 1, dot - 1)
        frac == SubSeq(body, dot + 1, Len(body))
        ok == /\ Cardinality(dots) <= 1
              /\ \A i \in 1..Len(whole) : IsDigit(whole[i])
              /\ \A i \in 1..Len(frac) : IsDigit(frac[i])
              /\ Len(whole) + Len(frac) > 0
        sign == IF signed /\ number[1] = "-" THEN -1 ELSE 1
    IN  IF ok
        THEN Float(sign * (Int10(whole) * Pow10(Len(frac)) + Int10(frac)),
                   Pow10(Len(frac)))
        ELSE ValueError([text |-> "could not convert string to float",
                         value |-> number])

\* [float(number) for number in data]: the first field that does not
\* convert ends the comprehension with its ValueError.
float_list(data_) ==
    LET conv == [i \in 1..Len(data_) |-> float_of_str(data_[i])]
        bad == {i \in 1..Len(data_) : IsExc(conv[i])}
    IN  IF bad = {}
        THEN [tag |-> "list", items |-> conv]
        ELSE conv[CHOOSE i \in bad : \A j \in bad : i <= j]

\* The body of the try statement (lines 199-204) for one unpacked row: the
\* line main prints, or the exception that leaves the body.
try_body(workout_type_, data_) ==
    LET numbers == float_list(data_)
    IN  IF IsExc(numbers) THEN numbers
        ELSE LET package == read_package(workout_type_, numbers.items)
             IN  IF IsExc(package) THEN package ELSE main(package)

\* The exception classes the except clause of the loop names (line 205).
main_catches == {"ValueError", "IncorrectInputDataError"}

\* The line of the except clause (line 206): a fixed Russian prefix,
\* "incorrect input data", followed by str(err).
ErrorLine(err) ==
    [tag |-> "str", text |-> "incorrect input data", err |-> err.msg]

\* One iteration of the for loop: unpack the row (outside the try), run the
\* try body, print the summary or, for a caught exception, the error line.
\* Any other exception, and a ValueError of the unpacking, ends the program.
NextRow ==
    /\ uncaught = None
    /\ row_idx < Len(packages)
    /\ row_idx' = row_idx + 1
    /\ LET row == packages[row_idx + 1]
       IN  IF Len(row) = 0
           THEN /\ uncaught' = ValueError([text |-> "not enough values to unpack"])
                /\ printed' = printed
           ELSE LET result == try_body(Head(row), Tail(row))
                IN  IF ~IsExc(result)
                    THEN /\ printed' = Append(printed, result)
                         /\ uncaught' = uncaught
                    ELSE IF result.type \in main_catches
                    THEN /\ printed' = Append(printed, ErrorLine(result))
                         /\ uncaught' = uncaught
                    ELSE /\ printed' = printed
                         /\ uncaught' = result
    /\ UNCHANGED <<klass, packages, workout_type, data, training, raised,
                   info, calls, distance, speed>>

(***************************************************************************)
(* Sample inputs.                                                          *)
(***************************************************************************)
MaxRows == 2
MaxCalls == 3

\* Rows of packages.csv as csv.reader yields them: the first field is the
\* code (kept whole: the program only uses it as a key), the others are the
\* characters of the numeric fields.  A blank line yields the empty row.
Rows ==
    { <<"RUN", <<"1","5","0","0","0">>, <<"1">>, <<"7","5">>>>,
      <<"SWM", <<"7","2","0">>, <<"1">>, <<"8","0">>, <<"2","5">>, <<"4","0">>>>,
      <<"WLK", <<"2","0","0","0","0">>, <<"1">>, <<"7","5">>, <<"1","8","0">>>>,
      <<"RUN", <<"1","5","0","0">>, <<"0",".","5">>, <<"-","7","5">>>>,
      <<"XYZ", <<"1">>, <<"2">>, <<"3">>>>,
      <<"XYZ", <<"x">>>>,
      <<"", <<>>>>,
      <<"RUN", <<"1">>, <<"2">>>>,
      <<"WLK", <<"1">>, <<"2">>, <<"3">>, <<"4">>, <<"5">>>>,
      <<"RUN", <<"1","5","0","0","0">>, <<"x">>, <<"7","5">>>>,
      <<"SWM", <<"7","2","0">>, <<"1",".","2",".","3">>, <<"8","0">>, <<"2","5">>, <<"4","0">>>>,
      <<>>,
      <<"RUN", <<"1","5","0","0","0">>, <<"0">>, <<"7","5">>>>,
      <<"SWM", <<"7","2","0">>, <<"0",".","0">>, <<"8","0">>, <<"2","5">>, <<"4","0">>>>,
      <<"WLK", <<"9","0","0","0">>, <<"1">>, <<"7","5">>, <<"0">>>> }

Codes == {"RUN", "WLK", "SWM", "XYZ", "", "run"}

\* Argument lists for read_package, as whole numbers.
DataSamples ==
    { <<>>, <<15000>>, <<15000, 1>>,
      <<15000, 1, 75>>, <<15000, 2, 75>>, <<9000, 1, 75>>, <<15000, 0, 75>>,
      <<15000, -1, 75>>, <<-15000, 1, 75>>, <<15000, 1, -75>>, <<0, 1, 0>>,
      <<20000, 1, 75, 180>>, <<20000, 2, 80, 100>>, <<10000, 1, 75, 180>>,
      <<20000, 1, 75, 0>>, <<9000, 1, 75, 0>>, <<20000, 0, 75, 180>>,
      <<20000, -1, 75, 180>>, <<20000, 1, 75, -180>>, <<0, 1, 0, 0>>,
      <<720, 1, 80, 25, 40>>, <<1000, 1, 80, 25, 40>>, <<720, 2, 80, 50, 40>>,
      <<720, 0, 80, 25, 40>>, <<720, 1, 80, 25, -40>>, <<0, 1, 80, 0, 0>>,
      <<720, 1, 80, 25, 40, 1>> }

ToFloats(s) == [i \in 1..Len(s) |-> ToFloat(s[i])]

\* A duration of half an hour.
HalfHour == Float(1, 2)

FloatData ==
    {ToFloats(s) : s \in DataSamples}
    \cup {<<ToFloat(15000), HalfHour, ToFloat(75)>>,
          <<ToFloat(20000), HalfHour, ToFloat(75), ToFloat(180)>>,
          <<ToFloat(720), HalfHour, ToFloat(80), ToFloat(25), ToFloat(40)>>}

\* Instances for the calls of get_distance and get_mean_speed.
Actions == {0, 1, 720, 9000, 15000}
Durations == {ToFloat(0), ToFloat(1), ToFloat(2), ToFloat(3), HalfHour, ToFloat(-1)}

Trainings ==
    UNION {{New("Running", <<ToFloat(a), d, ToFloat(75)>>),
            New("SportsWalking", <<ToFloat(a), d, ToFloat(75), ToFloat(180)>>),
            New("Swimming", <<ToFloat(a), d, ToFloat(80), ToFloat(25), ToFloat(40)>>)}
           : <<a, d>> \in Actions \X Durations}

(***************************************************************************)
(* Spec: the program run on a file of at most MaxRows rows.                *)
(***************************************************************************)
Init ==
    /\ klass = ClassBodies
    /\ packages \in UNION {[1..n -> Rows] : n \in 0..MaxRows}
    /\ row_idx = 0
    /\ printed = <<>>
    /\ uncaught = None
    /\ workout_type = None
    /\ data = None
    /\ training = None
    /\ raised = None
    /\ info = None
    /\ calls = 0
    /\ distance = None
    /\ speed = None

Next == NextRow

Spec == Init /\ [][Next]_vars

(***************************************************************************)
(* SpecPackage: one read_package call, then show_training_info calls on    *)
(* the instance it returned.                                               *)
(***************************************************************************)
InitPackage ==
    /\ klass = ClassBodies
    /\ packages = <<>>
    /\ row_idx = 0
    /\ printed = <<>>
    /\ uncaught = None
    /\ workout_type \in {[tag |-> "str", s |-> c] : c \in Codes}
    /\ data \in {[tag |-> "list", items |-> d] : d \in FloatData}
    /\ training = None
    /\ raised = None
    /\ info = None
    /\ calls = 0
    /\ distance = None
    /\ speed = None

ReadPackage ==
    /\ training = None
    /\ raised = None
    /\ data # None
    /\ LET result == read_package(workout_type.s, data.items)
       IN  IF IsExc(result)
           THEN raised' = result /\ training' = training
           ELSE training' = result /\ raised' = raised
    /\ UNCHANGED <<klass, packages, row_idx, printed, uncaught, workout_type,
                   data, info, calls, distance, speed>>

ShowTrainingInfo ==
    /\ IsTraining(training)
    /\ data # None
    /\ calls < MaxCalls
    /\ LET result == show_training_info(training)
       IN  /\ info' = result.ret
           /\ training' = result.self
    /\ calls' = calls + 1
    /\ UNCHANGED <<klass, packages, row_idx, printed, uncaught, workout_type,
                   data, raised, distance, speed>>

NextPackage == ReadPackage \/ ShowTrainingInfo

SpecPackage == InitPackage /\ [][NextPackage]_vars

(***************************************************************************)
(* SpecTraining: get_distance and get_mean_speed called on an instance.    *)
(***************************************************************************)
InitTraining ==
    /\ klass = ClassBodies
    /\ packages = <<>>
    /\ row_idx = 0
    /\ printed = <<>>
    /\ uncaught = None
    /\ workout_type = None
    /\ data = None
    /\ training \in Trainings
    /\ raised = None
    /\ info = None
    /\ calls = 0
    /\ distance = None
    /\ speed = None

GetDistance ==
    /\ data = None
    /\ IsTraining(training)
    /\ distance' = get_distance(training)
    /\ UNCHANGED <<klass, packages, row_idx, printed, uncaught, workout_type,
                   data, training, raised, info, calls, speed>>

GetMeanSpeed ==
    /\ data = None
    /\ IsTraining(training)
    /\ speed' = get_mean_speed(training)
    /\ UNCHANGED <<klass, packages, row_idx, printed, uncaught, workout_type,
                   data, training, raised, info, calls, distance>>

NextTraining == GetDistance \/ GetMeanSpeed

SpecTraining == InitTraining /\ [][NextTraining]_vars

(***************************************************************************)
(* Properties.                                                             *)
(***************************************************************************)
KnownCodes == {"RUN", "WLK", "SWM"}

\* read_package has been called and has returned or raised.
Called == training # None \/ raised # None

\* The numeric attributes of an instance.
Numbers(t) == {t[InitParams[t.tag][i]] : i \in 1..Len(InitParams[t.tag])}

Positive(x) == x.n > 0
NonNegative(x) == x.n >= 0

\* C1 (as claimed): whatever the rows, the loop prints exactly one line per
\* row taken and no row ends the program with an uncaught exception.
C1_OneLinePerRecord == uncaught = None /\ Len(printed) = row_idx

\* C2 (as claimed): every instance read_package returns has a duration > 0
\* and no negative attribute.
C2_ReadingsAreValid ==
    IsTraining(training) =>
        /\ Positive(training.duration)
        /\ \A x \in Numbers(training) : NonNegative(x)

\* C3 (as claimed): for an instance with duration > 0 and no negative
\* attribute, get_distance, get_mean_speed, get_spent_calories and
\* show_training_info all return a value.
C3_TotalOnPositiveDuration ==
    (/\ IsTraining(training)
     /\ calls > 0
     /\ Positive(training.duration)
     /\ \A x \in Numbers(training) : NonNegative(x))
    => /\ IsInfo(info)
       /\ ~IsExc(get_distance(training))
       /\ ~IsExc(get_mean_speed(training))
       /\ ~IsExc(get_spent_calories(training))

\* C4: for a code that is not exactly RUN, WLK or SWM, and any argument
\* list, read_package returns no instance and raises the error of an unknown
\* code: IncorrectInputDataError whose message is the KeyError's, naming the
\* code, also when the number of values fits no class.
C4_UnknownCodeRaises ==
    (data # None /\ Called /\ workout_type.s \notin KnownCodes)
    => /\ training = None
       /\ raised.type = "IncorrectInputDataError"
       /\ raised.msg = [text |-> "repr", key |-> workout_type.s]

C4_Witness ==
    /\ data # None
    /\ workout_type.s = "run"
    /\ Len(data.items) \notin {3, 4, 5}
    /\ raised # None

\* The number of values each code takes, as the claim gives it.
C5_Arity(code) == CASE code = "RUN" -> 3 [] code = "WLK" -> 4 [] code = "SWM" -> 5

\* The kind of the error read_package raises for an unknown code.
C5_UnknownCodeKind == read_package("XYZ", <<>>).type

\* C5 (as claimed): for a known code and a count other than the arity,
\* the error raised is of a kind distinct from the unknown-code error.
C5_DistinctErrorKind ==
    (/\ data # None
     /\ Called
     /\ workout_type.s \in KnownCodes
     /\ Len(data.items) # C5_Arity(workout_type.s))
    => /\ raised # None
       /\ raised.type # C5_UnknownCodeKind

\* C5 (amended): for a known code read_package returns an instance iff the
\* number of values equals the arity (3, 4, 5); for every other count it
\* returns none and raises IncorrectInputDataError carrying the TypeError's
\* message: the same error class as for an unknown code, told apart only by
\* the message.
C5_CountDecides ==
    (data # None /\ Called /\ workout_type.s \in KnownCodes)
    => /\ IsTraining(training) <=> Len(data.items) = C5_Arity(workout_type.s)
       /\ Len(data.items) # C5_Arity(workout_type.s) =>
            /\ training = None
            /\ raised.type = "IncorrectInputDataError"
            /\ raised.type = C5_UnknownCodeKind
            /\ raised.msg.text \in
                 {"missing required positional arguments",
                  "takes positional arguments but more were given"}
            /\ raised.msg # read_package("XYZ", data.items).msg

C5_Witness ==
    /\ data # None
    /\ workout_type.s = "RUN"
    /\ Len(data.items) = 4
    /\ raised # None
    /\ training = None

\* The Running formulas as the claim writes them.
C6_Speed(t) ==
    FDiv(FDiv(FMul(t.action, Float(65, 100)), ToFloat(1000)), t.duration)

C6_Calories(t) ==
    FMul(FMul(FDiv(FMul(FAdd(FMul(ToFloat(18), C6_Speed(t)), Float(179, 100)),
                        t.weight),
                   ToFloat(1000)),
              t.duration),
         ToFloat(60))

C6_Example == New("Running", <<ToFloat(15000), ToFloat(1), ToFloat(75)>>)

\* C6 (as claimed): the summary of Running(15000, 1, 75) shows 846.488 kcal.
C6_ExampleCalories846 ==
    (training = C6_Example /\ calls > 0)
    => /\ IsInfo(info)
       /\ Format3f(info.calories) = 846488

\* C6 (amended): for a Running instance (duration not 0), calories =
\* (18 * mean_speed + 1.79) * weight / 1000 * duration * 60 with mean_speed =
\* steps * 0.65 / 1000 / duration; for (15000, 1, 75) the summary shows
\* distance 9.750, mean speed 9.750 and calories 797.805.
C6_RunningCalories ==
    /\ (/\ IsTraining(training)
        /\ training.tag = "Running"
        /\ calls > 0
        /\ training.duration.n # 0)
       => /\ IsInfo(info)
          /\ info.speed = C6_Speed(training)
          /\ info.calories = C6_Calories(training)
    /\ (training = C6_Example /\ calls > 0)
       => /\ IsInfo(info)
          /\ Format3f(info.distance) = 9750
          /\ Format3f(info.speed) = 9750
          /\ Format3f(info.calories) = 797805

C6_Witness ==
    /\ training = C6_Example
    /\ calls > 0
    /\ IsInfo(info)
    /\ get_message(info).calories = 797805

\* The Swimming formulas as the claim writes them.
C7_Speed(t) ==
    FDiv(FDiv(FMul(t.length_pool, t.count_pool), ToFloat(1000)), t.duration)

C7_Calories(t) ==
    FMul(FMul(FMul(FAdd(C7_Speed(t), Float(11, 10)), ToFloat(2)), t.weight),
         t.duration)

C7_Example ==
    New("Swimming",
        <<ToFloat(720), ToFloat(1), ToFloat(80), ToFloat(25), ToFloat(40)>>)

\* C7: for a Swimming instance (duration not 0), mean speed = pool_length *
\* lap_count / 1000 / duration and calories = (mean_speed + 1.1) * 2 * weight
\* * duration, whatever the stroke count; (720, 1, 80, 25, 40) gives mean
\* speed 1.0 and calories 336.0.
C7_SwimmingFormulas ==
    /\ (/\ IsTraining(training)
        /\ training.tag = "Swimming"
        /\ calls > 0
        /\ training.duration.n # 0)
       => /\ IsInfo(info)
          /\ info.speed = C7_Speed(training)
          /\ info.calories = C7_Calories(training)
          /\ \A a \in Actions :
               LET other == show_training_info([training EXCEPT !.action = ToFloat(a)]).ret
               IN  other.speed = info.speed /\ other.calories = info.calories
    /\ (training = C7_Example /\ calls > 0)
       => /\ IsInfo(info)
          /\ info.speed = ToFloat(1)
          /\ info.calories = ToFloat(336)

C7_Witness ==
    /\ training = C7_Example
    /\ calls > 0
    /\ IsInfo(info)
    /\ Format3f(info.speed) = 1000
    /\ Format3f(info.calories) = 336000

\* C8 (as claimed): the distance in a Swimming summary is pool_length *
\* lap_count / 1000, so it equals mean speed times duration.
C8_DistanceFromLaps ==
    (IsTraining(training) /\ training.tag = "Swimming" /\ calls > 0 /\ IsInfo(info))
    => /\ info.distance =
            FDiv(FMul(training.length_pool, training.count_pool), ToFloat(1000))
       /\ info.distance = FMul(info.speed, info.duration)

\* C8 (amended): the distance in a Swimming summary is action * 1.38 / 1000,
\* the stroke count times Swimming's own LEN_STEP, whatever the pool length
\* and lap count; two Swimming instances that differ only in action have
\* different distances.
C8_DistanceFromStrokes ==
    (IsTraining(training) /\ training.tag = "Swimming" /\ calls > 0 /\ IsInfo(info))
    => /\ info.distance =
            FDiv(FMul(training.action, Float(138, 100)), ToFloat(1000))
       /\ \A a \in Actions :
            ToFloat(a) # training.action =>
              show_training_info([training EXCEPT !.action = ToFloat(a)]).ret.distance
                # info.distance

C8_Witness ==
    /\ training = C7_Example
    /\ calls > 0
    /\ IsInfo(info)
    /\ info.distance = Float(9936, 10000)
    /\ info.distance # FMul(info.speed, info.duration)

\* C9: a show_training_info call leaves every attribute of the instance and
\* every class attribute as it was, and from the second call on returns (or
\* raises) exactly what the call before it did.
C9_ShowIsPure ==
    [][calls' = calls + 1 =>
         /\ training' = training
         /\ klass' = klass
         /\ (calls >= 1 => info' = info)]_vars

C9_Witness ==
    /\ calls = MaxCalls
    /\ IsTraining(training)
    /\ IsInfo(info)
    /\ info.training_type = "SportsWalking"

C10_Distance(t) == FDiv(FMul(t.action, Float(65, 100)), ToFloat(1000))

C10_Example ==
    New("SportsWalking", <<ToFloat(9000), ToFloat(1), ToFloat(75), ToFloat(180)>>)

\* The instance of the other step-counting class with the same steps and
\* duration.
C10_Sibling(t) ==
    IF t.tag = "Running"
    THEN New("SportsWalking", <<t.action, t.duration, t.weight, ToFloat(180)>>)
    ELSE New("Running", <<t.action, t.duration, t.weight>>)

====
